---------------------------- MODULE Spec2Model ----------------------------
(***************************************************************************)
(* Model of the Xiaozhi MCP pipe (src/mcp_pipe.py): the MCPPipe session    *)
(* loop run(), the handshake initialize_mcp(), the three pump coroutines   *)
(* and stop(), as asyncio tasks interleaved at their await points.         *)
(***************************************************************************)
EXTENDS Integers, Sequences, FiniteSets, TLC

(* ------------------------------ bounds --------------------------------- *)
\* lines the child writes to stdout during the life of one process
MaxLines == 2
\* messages the remote sends during the life of one connection
MaxMsgs == 2
\* consecutive failed connection attempts that are counted (then saturates)
MaxFails == 4
\* seconds of sleep that are summed up between two attempts (then saturates)
MaxSlept == 130
\* stop() calls (signal handler, main's finally)
MaxStops == 2

\* token characters in XIAOZHI_TOKEN
MaxTokenLen == 10
\* rows of the reminders table
MaxReminders == 2
\* polling cycles of the notifier
MaxCycles == 3
\* calls of SmitheryClient methods
MaxCalls == 2

(* ------------------------- program constants --------------------------- *)
max_reconnect_delay == 60
\* line 280: if len(token) < 10
MinTokenLen == 10

NL == "\n"
SP == " "

\* json.dumps(init_request) and json.dumps(initialized_notification), each
\* taken as one opaque token of text
InitRequest == <<"initialize">>
InitializedNotification == <<"notifications/initialized">>

\* lines the child may print (each as readline() returns it, terminator kept)
\* "{}" stands for a JSON text, "x" for text that is not JSON
Lines == { <<"{}", NL>>, <<SP, "x", NL>>, <<NL>> }
\* text frames the remote may send
Messages == { <<"{}">>, <<SP, "x">> }

Pumps == {"read_from_process", "read_from_websocket", "read_process_stderr"}

\* str(e) of the errors websockets.connect may raise, as words
ConnectErrors == { <<"HTTP", "401">>, <<"timed", "out">> }

\* the ways an iteration of run()'s loop fails before a connection is made
FailureKinds == {"spawn_error", "connect_error_401", "connect_error"}
NoRetries == [k \in FailureKinds |-> <<>>]

\* os.getenv("XIAOZHI_TOKEN"): None when unset, else a text, here n token
\* characters between a leading and b trailing blanks
Token(a, n, b) ==
  [set |-> TRUE,
   text |-> [i \in 1..(a + n + b) |-> IF i > a /\ i <= a + n THEN "t" ELSE SP]]
NoToken == [set |-> FALSE, text |-> <<>>]
Tokens ==
  {NoToken} \cup {Token(a, n, b) : a \in 0..1, n \in 0..MaxTokenLen, b \in 0..1}

\* ids of the rows of the reminders table
ReminderIds == 1..MaxReminders

\* the ids a tool may be called with: those of the table and one that no row
\* has
RequestIds == 1..(MaxReminders + 1)

\* values of the user_id column: the default of the tools, and another user
UserIds == {"default", "other"}

\* reply before any call of a tool
NoReply ==
  [tool |-> "none", reminder_id |-> 0, user_id |-> "none", success |-> FALSE,
   error |-> "none"]

\* qualified names of Smithery servers (owner/repo)
ServerNames == {"a/x", "b/y"}

\* result before any call of a SmitheryClient method
NoResult == [call |-> "none", name |-> "none", status |-> "none", ok |-> FALSE]

VARIABLES
  running,          \* self.running
  reconnect_delay,  \* self.reconnect_delay
  initialized,      \* self.initialized
  ws,               \* self.ws: "none" (None), "open", "closed"
  process,          \* self.process: "none" (None), "alive", "terminating", "exited"
  pc,               \* where run() is suspended
  tasks,            \* the three pump tasks: "none", "start", "blocked", "done"
  stopPc,           \* where stop() is suspended: "idle", "ws_close", "wait", "done"
  stops,            \* number of stop() calls made
  stdin,            \* chunks written to the current child's stdin
  wsOut,            \* messages sent on the current connection
  readLog,          \* lines readline() has returned from the current child's stdout
  recvLog,          \* messages recv() has returned on the current connection
  hsTrace,          \* steps initialize_mcp() has taken for the current connection
  fails,            \* consecutive failed connection attempts
  slept,            \* seconds slept since the last connection attempt ended
  orphanProcess,    \* a child was spawned while the child before it was alive
  orphanConnection, \* a connection was made while the one before it was open
  iterResult,       \* how far this iteration of run()'s loop got
  iterSleeps,       \* backoff sleeps started in this iteration
  iterDoublings,    \* doublings of the delay made in this iteration
  retryLog,         \* per kind of failure, the sleeps and doublings of the last
                    \* such iteration since the last successful connection
  token,            \* XIAOZHI_TOKEN in the environment of main()
  \* src/reminder_notifier.py
  reminders,        \* the rows of the reminders table, by id
  due_reminders,    \* check_and_notify(): the reminders still to process
  notifierPc,       \* where check_and_notify() is: "idle", "send", "mark"
  notifications,    \* per reminder, the notifications sent to the remote
  cycles,           \* calls of check_and_notify() made
  \* src/reminder_server.py
  reply,            \* the last call of a tool and what it returned
  \* src/smithery_connector.py
  api_key,          \* SMITHERY_API_KEY is set
  hosted,           \* the servers whose hosted endpoint answers 200
  servers,          \* the keys of SmitheryClient.servers
  requests,         \* HTTP requests posted by the client
  calls,            \* calls of the client's methods made
  result,           \* the last call and what it returned
  \* src/auto_connect_manager.py
  servers_config,   \* the names configured, each enabled or not
  connected_servers, \* the keys of AutoConnectManager.connected_servers
  attempted,        \* the servers connect_server() was called for
  pending,          \* the connect_server() tasks not yet run
  managerPc         \* where connect_all() is: "idle", "gather", "done"

vars == <<running, reconnect_delay, initialized, ws, process, pc, tasks, stopPc,
          stops, stdin, wsOut, readLog, recvLog,
          hsTrace, fails, slept, orphanProcess, orphanConnection,
          iterResult, iterSleeps, iterDoublings, retryLog, token,
          reminders, due_reminders, notifierPc, notifications, cycles, reply,
          api_key, hosted, servers, requests, calls, result,
          servers_config, connected_servers, attempted, pending, managerPc>>

pipeVars == <<stdin, readLog>>
connVars == <<wsOut, recvLog>>
ghostVars == <<fails, slept>>
orphanVars == <<orphanProcess, orphanConnection>>
iterVars == <<iterResult, iterSleeps, iterDoublings, retryLog>>
notifierVars == <<reminders, due_reminders, notifierPc, notifications, cycles>>
clientVars == <<api_key, hosted, servers, requests, calls, result>>
managerVars == <<servers_config, connected_servers, attempted, pending, managerPc>>
serviceVars == <<notifierVars, reply, clientVars, managerVars>>
mcpPipeVars == <<running, reconnect_delay, initialized, ws, process, pc, tasks,
                 stopPc, stops, pipeVars, connVars, hsTrace, ghostVars,
                 orphanVars, iterVars, token>>

Min(a, b) == IF a < b THEN a ELSE b

(* ------------------------------ helpers -------------------------------- *)
IsSpace(c) == c \in {SP, NL}

RECURSIVE LStrip(_)
LStrip(s) == IF s # <<>> /\ IsSpace(Head(s)) THEN LStrip(Tail(s)) ELSE s

RECURSIVE RStrip(_)
RStrip(s) ==
  IF s # <<>> /\ IsSpace(s[Len(s)]) THEN RStrip(SubSeq(s, 1, Len(s) - 1)) ELSE s

\* line.decode().strip()
Strip(line) == RStrip(LStrip(line))

\* json.loads(message) returns (lines 125, 152); it raises otherwise and the
\* bare except of lines 129 and 155 passes
IsJson(message) == Strip(message) = <<"{}">>

\* mutant of StdinChunk: the newline is left out
StdinChunk_NoNewline(message) == message

\* f"{message}\n".encode()
StdinChunk(message) == message \o <<NL>>

\* mutant of NextDelay: the cap is left out
NextDelay_Uncapped(d) == d * 2

\* min(self.reconnect_delay * 2, self.max_reconnect_delay)
NextDelay(d) == Min(d * 2, max_reconnect_delay)

\* while self.running: at the top of a pump's loop
PumpLoop == IF running THEN "blocked" ELSE "done"

Alive == process \in {"alive", "terminating"}

(* ------------------------------- Init ---------------------------------- *)
\* lines 19-27: the fields of a new MCPPipe, and the logs of the model
MCPPipe_init ==
  /\ running = FALSE
  /\ reconnect_delay = 1
  /\ initialized = FALSE
  /\ ws = "none"
  /\ process = "none"
  /\ tasks = [p \in Pumps |-> "none"]
  /\ stopPc = "idle"
  /\ stops = 0
  /\ stdin = <<>>
  /\ wsOut = <<>>
  /\ readLog = <<>>
  /\ recvLog = <<>>
  /\ hsTrace = <<>>
  /\ fails = 0
  /\ slept = 0
  /\ orphanProcess = FALSE
  /\ orphanConnection = FALSE
  /\ iterResult = "none"
  /\ iterSleeps = 0
  /\ iterDoublings = 0
  /\ retryLog = NoRetries

\* src/reminder_server.py, lines 27-38 and 90-93: a row is inserted with
\* the user_id of the call, completed = 0 and notified = 0; due says that
\* reminder_datetime <= now + 1 minute
NewRow(user_id, isDue) ==
  [present |-> TRUE, user_id |-> user_id, due |-> isDue, completed |-> FALSE,
   notified |-> FALSE]

\* an id that has no row: never inserted, or deleted
NoRow ==
  [present |-> FALSE, user_id |-> "none", due |-> FALSE, completed |-> FALSE,
   notified |-> FALSE]

\* no tool of the reminder server has been called
ReminderServerIdle == reply = NoReply

\* the notifier before its first polling cycle, over a table of rows none
\* of which is due
NotifierIdle ==
  /\ reminders = [r \in ReminderIds |-> NewRow("default", FALSE)]
  /\ due_reminders = <<>>
  /\ notifierPc = "idle"
  /\ notifications = [r \in ReminderIds |-> 0]
  /\ cycles = 0

\* src/smithery_connector.py, lines 23-31: SmitheryClient.__init__
SmitheryClient_init ==
  /\ servers = {}
  /\ requests = 0
  /\ calls = 0
  /\ result = NoResult

\* src/auto_connect_manager.py, lines 22-25: AutoConnectManager.__init__
AutoConnectManager_init ==
  /\ servers_config = {}
  /\ connected_servers = {}
  /\ attempted = {}
  /\ pending = {}
  /\ managerPc = "idle"

\* no API key and no hosted server: the Smithery client is not used
SmitheryIdle ==
  /\ api_key = FALSE
  /\ hosted = {}
  /\ SmitheryClient_init
  /\ AutoConnectManager_init

\* main() has checked the token and built the pipe; run() is about to start
SessionReady ==
  /\ MCPPipe_init
  /\ pc = "start"
  /\ token = Token(0, MinTokenLen, 0)

Init ==
  /\ SessionReady
  /\ NotifierIdle
  /\ ReminderServerIdle
  /\ SmitheryIdle

(* ------------------------ main(): the token check --------------------- *)
\* mutant of main: the length is taken before the token is stripped
main_NoStrip ==
  /\ pc = "main"
  /\ pc' = IF ~token.set \/ token.text = <<>> \/ Len(token.text) < MinTokenLen
           THEN "exit1"
           ELSE "start"
  /\ UNCHANGED <<running, reconnect_delay, initialized, ws, process, tasks, stopPc,
                 stops, pipeVars, connVars, hsTrace, ghostVars, orphanVars,
                 iterVars, token, serviceVars>>

\* lines 263-297: sys.exit(1) when the token is None or empty (265), or shorter
\* than 10 characters once stripped (278-280); else the pipe is built
main ==
  /\ pc = "main"
  /\ pc' = IF ~token.set \/ token.text = <<>> \/ Len(Strip(token.text)) < MinTokenLen
           THEN "exit1"
           ELSE "start"
  /\ UNCHANGED <<running, reconnect_delay, initialized, ws, process, tasks, stopPc,
                 stops, pipeVars, connVars, hsTrace, ghostVars, orphanVars,
                 iterVars, token, serviceVars>>

(* ------------------------- run(): session loop ------------------------- *)
\* asyncio.sleep(self.reconnect_delay): the seconds added to the sum
Sleep(total, d) == Min(total + d, MaxSlept)

\* line 191: self.running = True
run_begin ==
  /\ pc = "start"
  /\ running' = TRUE
  /\ pc' = "top"
  /\ UNCHANGED <<reconnect_delay, initialized, ws, process, tasks, stopPc, stops,
                 pipeVars, connVars, hsTrace, ghostVars>>
  /\ UNCHANGED <<orphanVars, iterVars, token, serviceVars>>

\* line 193: while self.running, then the call of start_mcp_process()
run_loop ==
  /\ pc = "top"
  /\ pc' = IF running THEN "spawning" ELSE "returned"
  /\ UNCHANGED <<running, reconnect_delay, initialized, ws, process, tasks, stopPc,
                 stops, pipeVars, connVars, hsTrace, ghostVars>>
  /\ iterResult' = "none"
  /\ iterSleeps' = 0
  /\ iterDoublings' = 0
  /\ UNCHANGED <<orphanVars, retryLog, token, serviceVars>>

\* lines 32-41: create_subprocess_exec returns a new process with fresh pipes
start_mcp_process_ok ==
  /\ pc = "spawning"
  /\ process' = "alive"
  /\ stdin' = <<>>
  /\ readLog' = <<>>
  /\ pc' = "connecting"
  /\ UNCHANGED <<running, reconnect_delay, initialized, ws, tasks, stopPc, stops,
                 connVars, hsTrace, ghostVars>>
  /\ orphanProcess' = (orphanProcess \/ Alive)
  /\ UNCHANGED <<orphanConnection, iterVars, token, serviceVars>>

\* mutant of start_mcp_process_fail: the except clause clears running
start_mcp_process_fail_Stops ==
  /\ pc = "spawning"
  /\ pc' = "fin_ws"
  /\ running' = FALSE
  /\ UNCHANGED <<reconnect_delay, initialized, ws, process, tasks, stopPc,
                 stops, pipeVars, connVars, hsTrace, ghostVars>>
  /\ iterResult' = "spawn_error"
  /\ UNCHANGED <<orphanVars, iterSleeps, iterDoublings, retryLog, token, serviceVars>>

\* mutant of start_mcp_process_fail: the exception leaves run()
start_mcp_process_fail_Raises ==
  /\ pc = "spawning"
  /\ pc' = "returned"
  /\ UNCHANGED <<running, reconnect_delay, initialized, ws, process, tasks, stopPc,
                 stops, pipeVars, connVars, hsTrace, ghostVars>>
  /\ iterResult' = "spawn_error"
  /\ UNCHANGED <<orphanVars, iterSleeps, iterDoublings, retryLog, token, serviceVars>>

\* line 32 raises: except (214) logs, finally (216) follows
start_mcp_process_fail ==
  /\ pc = "spawning"
  /\ pc' = "fin_ws"
  /\ UNCHANGED <<running, reconnect_delay, initialized, ws, process, tasks, stopPc,
                 stops, pipeVars, connVars, hsTrace, ghostVars>>
  /\ iterResult' = "spawn_error"
  /\ UNCHANGED <<orphanVars, iterSleeps, iterDoublings, retryLog, token, serviceVars>>

\* mutant of connect_websocket_ok: the initialized flag is not cleared
connect_websocket_ok_KeepsFlag ==
  /\ pc = "connecting"
  /\ ws' = "open"
  /\ reconnect_delay' = 1
  /\ wsOut' = <<>>
  /\ recvLog' = <<>>
  /\ hsTrace' = <<>>
  /\ fails' = 0
  /\ slept' = 0
  /\ pc' = "hs_init"
  /\ UNCHANGED <<running, initialized, process, tasks, stopPc, stops, pipeVars>>
  /\ orphanConnection' = (orphanConnection \/ ws = "open")
  /\ iterResult' = "connected"
  /\ retryLog' = NoRetries
  /\ UNCHANGED <<orphanProcess, iterSleeps, iterDoublings, token, serviceVars>>

\* lines 49-57: websockets.connect succeeded
connect_websocket_ok ==
  /\ pc = "connecting"
  /\ ws' = "open"
  /\ reconnect_delay' = 1
  /\ initialized' = FALSE
  /\ wsOut' = <<>>
  /\ recvLog' = <<>>
  /\ hsTrace' = <<>>
  /\ fails' = 0
  /\ slept' = 0
  /\ pc' = "hs_init"
  /\ UNCHANGED <<running, process, tasks, stopPc, stops, pipeVars>>
  /\ orphanConnection' = (orphanConnection \/ ws = "open")
  /\ iterResult' = "connected"
  /\ retryLog' = NoRetries
  /\ UNCHANGED <<orphanProcess, iterSleeps, iterDoublings, token, serviceVars>>

\* line 60: "401" in str(e); only the diagnostic that is logged depends on it
Has401(err) == \E i \in 1..Len(err) : err[i] = "401"

\* mutant of connect_websocket_fail: the result of connect_websocket() is
\* not tested and the handshake follows
connect_websocket_fail_Proceeds(err) ==
  /\ pc = "connecting"
  /\ fails' = Min(fails + 1, MaxFails)
  /\ slept' = Sleep(0, reconnect_delay)
  /\ pc' = "hs_init"
  /\ UNCHANGED <<running, reconnect_delay, initialized, ws, process, tasks, stopPc,
                 stops, pipeVars, connVars, hsTrace>>
  /\ iterResult' = IF Has401(err) THEN "connect_error_401" ELSE "connect_error"
  /\ iterSleeps' = iterSleeps + 1
  /\ UNCHANGED <<orphanVars, iterDoublings, retryLog, token, serviceVars>>

\* mutant of connect_websocket_fail: an authentication failure ends run()
connect_websocket_fail_AuthFatal(err) ==
  /\ pc = "connecting"
  /\ fails' = Min(fails + 1, MaxFails)
  /\ slept' = Sleep(0, reconnect_delay)
  /\ pc' = IF Has401(err) THEN "returned" ELSE "retry_sleep"
  /\ UNCHANGED <<running, reconnect_delay, initialized, ws, process, tasks, stopPc,
                 stops, pipeVars, connVars, hsTrace>>
  /\ iterResult' = IF Has401(err) THEN "connect_error_401" ELSE "connect_error"
  /\ iterSleeps' = iterSleeps + 1
  /\ UNCHANGED <<orphanVars, iterDoublings, retryLog, token, serviceVars>>

\* lines 58-63 and 198-200: websockets.connect raised err; connect_websocket()
\* logs it and returns False, and the retry sleep starts
connect_websocket_fail(err) ==
  /\ pc = "connecting"
  /\ fails' = Min(fails + 1, MaxFails)
  /\ slept' = Sleep(0, reconnect_delay)
  /\ pc' = "retry_sleep"
  /\ UNCHANGED <<running, reconnect_delay, initialized, ws, process, tasks, stopPc,
                 stops, pipeVars, connVars, hsTrace>>
  /\ iterResult' = IF Has401(err) THEN "connect_error_401" ELSE "connect_error"
  /\ iterSleeps' = iterSleeps + 1
  /\ UNCHANGED <<orphanVars, iterDoublings, retryLog, token, serviceVars>>

\* mutant of run_retry: continue skips the finally clause
run_retry_NoTeardown ==
  /\ pc = "retry_sleep"
  /\ reconnect_delay' = NextDelay(reconnect_delay)
  /\ pc' = "top"
  /\ UNCHANGED <<running, initialized, ws, process, tasks, stopPc, stops,
                 pipeVars, connVars, hsTrace, ghostVars>>
  /\ iterDoublings' = iterDoublings + 1
  /\ UNCHANGED <<orphanVars, iterResult, iterSleeps, retryLog, token, serviceVars>>

\* mutant of run_retry: the connection is retried with the same process
run_retry_Reconnect ==
  /\ pc = "retry_sleep"
  /\ reconnect_delay' = NextDelay(reconnect_delay)
  /\ pc' = "connecting"
  /\ UNCHANGED <<running, initialized, ws, process, tasks, stopPc, stops,
                 pipeVars, connVars, hsTrace, ghostVars>>
  /\ iterDoublings' = iterDoublings + 1
  /\ UNCHANGED <<orphanVars, iterResult, iterSleeps, retryLog, token, serviceVars>>

\* lines 201-202: the sleep is over; double the delay; continue, which runs
\* the finally clause before the next iteration
run_retry ==
  /\ pc = "retry_sleep"
  /\ reconnect_delay' = NextDelay(reconnect_delay)
  /\ pc' = "fin_ws"
  /\ UNCHANGED <<running, initialized, ws, process, tasks, stopPc, stops,
                 pipeVars, connVars, hsTrace, ghostVars>>
  /\ iterDoublings' = iterDoublings + 1
  /\ UNCHANGED <<orphanVars, iterResult, iterSleeps, retryLog, token, serviceVars>>

(* ---------------------- initialize_mcp(): handshake -------------------- *)
\* mutant of initialize_mcp_request: the notification is written first
initialize_mcp_request_Swapped ==
  /\ pc = "hs_init"
  /\ \/ /\ stdin' = Append(stdin, StdinChunk(InitializedNotification))
        /\ hsTrace' = Append(hsTrace, "notifications/initialized")
        /\ pc' = "hs_sleep"
     \/ /\ process = "exited"
        /\ pc' = "create_tasks"
        /\ UNCHANGED <<stdin, hsTrace>>
  /\ UNCHANGED <<running, reconnect_delay, initialized, ws, process, tasks, stopPc,
                 stops, readLog, connVars, ghostVars>>
  /\ UNCHANGED <<orphanVars, iterVars, token, serviceVars>>

\* lines 86-90: write the initialize request and drain. A write to the pipe
\* of a child that has exited may raise; line 105 catches it and
\* initialize_mcp() returns normally.
initialize_mcp_request ==
  /\ pc = "hs_init"
  /\ \/ /\ stdin' = Append(stdin, StdinChunk(InitRequest))
        /\ hsTrace' = Append(hsTrace, "initialize")
        /\ pc' = "hs_sleep"
     \/ /\ process = "exited"
        /\ pc' = "create_tasks"
        /\ UNCHANGED <<stdin, hsTrace>>
  /\ UNCHANGED <<running, reconnect_delay, initialized, ws, process, tasks, stopPc,
                 stops, readLog, connVars, ghostVars>>
  /\ UNCHANGED <<orphanVars, iterVars, token, serviceVars>>

\* line 92: await asyncio.sleep(1)
initialize_mcp_sleep ==
  /\ pc = "hs_sleep"
  /\ hsTrace' = Append(hsTrace, "sleep")
  /\ pc' = "hs_notif"
  /\ UNCHANGED <<running, reconnect_delay, initialized, ws, process, tasks, stopPc,
                 stops, pipeVars, connVars, ghostVars>>
  /\ UNCHANGED <<orphanVars, iterVars, token, serviceVars>>

\* lines 94-103: write the initialized notification, drain, set the flag
initialize_mcp_notification ==
  /\ pc = "hs_notif"
  /\ \/ /\ stdin' = Append(stdin, StdinChunk(InitializedNotification))
        /\ hsTrace' = Append(hsTrace, "notifications/initialized")
        /\ initialized' = TRUE
     \/ /\ process = "exited"
        /\ UNCHANGED <<stdin, hsTrace, initialized>>
  /\ pc' = "create_tasks"
  /\ UNCHANGED <<running, reconnect_delay, ws, process, tasks, stopPc,
                 stops, readLog, connVars, ghostVars>>
  /\ UNCHANGED <<orphanVars, iterVars, token, serviceVars>>

(* ------------------------- run(): relay, teardown ---------------------- *)
\* lines 206-212: create the three tasks and await gather
run_create_tasks ==
  /\ pc = "create_tasks"
  /\ tasks' = [p \in Pumps |-> "start"]
  /\ pc' = "gather"
  /\ UNCHANGED <<running, reconnect_delay, initialized, ws, process, stopPc,
                 stops, pipeVars, connVars, hsTrace, ghostVars>>
  /\ UNCHANGED <<orphanVars, iterVars, token, serviceVars>>

\* line 212: asyncio.gather(*tasks, return_exceptions=True) returns once every
\* task has finished
GatherReady == \A p \in Pumps : tasks[p] = "done"

\* mutant of run_gather: the wait ends with the first task that finishes and
\* the other tasks are left running
run_gather_FirstCompleted ==
  /\ pc = "gather"
  /\ \E p \in Pumps : tasks[p] = "done"
  /\ pc' = "fin_ws"
  /\ UNCHANGED <<running, reconnect_delay, initialized, ws, process, tasks, stopPc,
                 stops, pipeVars, connVars, hsTrace, ghostVars>>
  /\ UNCHANGED <<orphanVars, iterVars, token, serviceVars>>

\* mutant of run_gather: the wait is not awaited; the loop goes on to its
\* teardown while the tasks it created are still running
run_gather_NoWait ==
  /\ pc = "gather"
  /\ pc' = "fin_ws"
  /\ UNCHANGED <<running, reconnect_delay, initialized, ws, process, tasks, stopPc,
                 stops, pipeVars, connVars, hsTrace, ghostVars>>
  /\ UNCHANGED <<orphanVars, iterVars, token, serviceVars>>

run_gather ==
  /\ pc = "gather"
  /\ GatherReady
  /\ tasks' = [p \in Pumps |-> "none"]
  /\ pc' = "fin_ws"
  /\ UNCHANGED <<running, reconnect_delay, initialized, ws, process, stopPc,
                 stops, pipeVars, connVars, hsTrace, ghostVars>>
  /\ UNCHANGED <<orphanVars, iterVars, token, serviceVars>>

\* mutant of run_finally_ws: the connection is not closed
run_finally_ws_NoClose ==
  /\ pc = "fin_ws"
  /\ pc' = "fin_proc"
  /\ wsOut' = <<>>
  /\ recvLog' = <<>>
  /\ hsTrace' = <<>>
  /\ UNCHANGED <<running, reconnect_delay, initialized, ws, process, tasks, stopPc,
                 stops, pipeVars, ghostVars>>
  /\ UNCHANGED <<orphanVars, iterVars, token, serviceVars>>

\* lines 217-221: if self.ws: await self.ws.close(). The logs kept for the
\* connection end with it.
run_finally_ws ==
  /\ pc = "fin_ws"
  /\ ws' = IF ws = "none" THEN "none" ELSE "closed"
  /\ pc' = "fin_proc"
  /\ wsOut' = <<>>
  /\ recvLog' = <<>>
  /\ hsTrace' = <<>>
  /\ UNCHANGED <<running, reconnect_delay, initialized, process, tasks, stopPc,
                 stops, pipeVars, ghostVars>>
  /\ UNCHANGED <<orphanVars, iterVars, token, serviceVars>>

\* lines 231-233: if self.running, the reconnect sleep starts. The process is
\* gone by now, and the logs kept for its pipes with it.
AfterTeardown ==
  /\ stdin' = <<>>
  /\ readLog' = <<>>
  /\ IF running
     THEN /\ pc' = "fin_sleep"
          /\ slept' = Sleep(slept, reconnect_delay)
          /\ iterSleeps' = iterSleeps + 1
     ELSE /\ pc' = "top"
          /\ slept' = slept
          /\ iterSleeps' = iterSleeps

\* lines 222-229: terminate() raises ProcessLookupError for a process that has
\* exited; otherwise SIGTERM is sent and wait() is awaited
run_finally_terminate ==
  /\ pc = "fin_proc"
  /\ IF Alive
     THEN /\ process' = "terminating"
          /\ pc' = "fin_wait"
          /\ slept' = slept
          /\ iterSleeps' = iterSleeps
          /\ UNCHANGED pipeVars
     ELSE /\ process' = process
          /\ AfterTeardown
  /\ UNCHANGED <<running, reconnect_delay, initialized, ws, tasks, stopPc,
                 stops, connVars, hsTrace, fails>>
  /\ UNCHANGED <<orphanVars, iterResult, iterDoublings, retryLog, token, serviceVars>>

\* line 225: await self.process.wait() returns when the child has exited
run_finally_wait ==
  /\ pc = "fin_wait"
  /\ process = "exited"
  /\ AfterTeardown
  /\ UNCHANGED <<running, reconnect_delay, initialized, ws, process, tasks, stopPc,
                 stops, connVars, hsTrace, fails>>
  /\ UNCHANGED <<orphanVars, iterResult, iterDoublings, retryLog, token, serviceVars>>

\* line 234: the sleep is over; double the delay
run_finally_sleep ==
  /\ pc = "fin_sleep"
  /\ reconnect_delay' = NextDelay(reconnect_delay)
  /\ pc' = "top"
  /\ UNCHANGED <<running, initialized, ws, process, tasks, stopPc, stops,
                 pipeVars, connVars, hsTrace, ghostVars>>
  /\ iterDoublings' = iterDoublings + 1
  /\ retryLog' = IF iterResult \in FailureKinds
                  THEN [retryLog EXCEPT ![iterResult] =
                          <<iterSleeps, iterDoublings + 1>>]
                  ELSE retryLog
  /\ UNCHANGED <<orphanVars, iterResult, iterSleeps, token, serviceVars>>

(* ------------------------------ the pumps ------------------------------ *)
\* the first "while self.running" of a task that has just been scheduled
\* (lines 110, 142, 174); self.process and self.ws are set by then
pump_begin(p) ==
  /\ tasks[p] = "start"
  /\ tasks' = [tasks EXCEPT ![p] = PumpLoop]
  /\ UNCHANGED <<running, reconnect_delay, initialized, ws, process, pc, stopPc,
                 stops, pipeVars, connVars, hsTrace, ghostVars>>
  /\ UNCHANGED <<orphanVars, iterVars, token, serviceVars>>

\* lines 120-133: the message sent for a line, or none
\* (message = line.decode().strip(); if message: ... ws.send(message))
Forwarded(line) == IF Strip(line) # <<>> THEN <<Strip(line)>> ELSE <<>>

\* mutant of read_from_process_line: a line that is not JSON is not sent and
\* ends the pump
read_from_process_line_DecodeAborts(line) ==
  /\ tasks["read_from_process"] = "blocked"
  /\ Alive
  /\ Len(readLog) < MaxLines
  /\ readLog' = Append(readLog, line)
  /\ IF Strip(line) # <<>> /\ ~IsJson(Strip(line))
     THEN /\ wsOut' = wsOut
          /\ tasks' = [tasks EXCEPT !["read_from_process"] = "done"]
     ELSE /\ wsOut' = IF ws = "open" THEN wsOut \o Forwarded(line) ELSE wsOut
          /\ tasks' = [tasks EXCEPT !["read_from_process"] = PumpLoop]
  /\ UNCHANGED <<running, reconnect_delay, initialized, ws, process, pc, stopPc,
                 stops, stdin, recvLog, hsTrace, ghostVars>>
  /\ UNCHANGED <<orphanVars, iterVars, token, serviceVars>>

\* lines 115-135: the child printed a line and readline() returned it. The
\* json.loads of line 125 only selects log lines, whether it raises or not.
\* ws.send raises on a closed connection; line 134 catches it and the loop
\* goes on.
read_from_process_line(line) ==
  /\ tasks["read_from_process"] = "blocked"
  /\ Alive
  /\ Len(readLog) < MaxLines
  /\ readLog' = Append(readLog, line)
  /\ wsOut' = IF ws = "open" THEN wsOut \o Forwarded(line) ELSE wsOut
  /\ tasks' = [tasks EXCEPT !["read_from_process"] = PumpLoop]
  /\ UNCHANGED <<running, reconnect_delay, initialized, ws, process, pc, stopPc,
                 stops, stdin, recvLog, hsTrace, ghostVars>>
  /\ UNCHANGED <<orphanVars, iterVars, token, serviceVars>>

\* lines 115-117: readline() returned b"" (end of stream): break
read_from_process_eof ==
  /\ tasks["read_from_process"] = "blocked"
  /\ process = "exited"
  /\ tasks' = [tasks EXCEPT !["read_from_process"] = "done"]
  /\ UNCHANGED <<running, reconnect_delay, initialized, ws, process, pc, stopPc,
                 stops, pipeVars, connVars, hsTrace, ghostVars>>
  /\ UNCHANGED <<orphanVars, iterVars, token, serviceVars>>

\* mutant of read_from_websocket_message: a failed write is logged and the
\* loop goes on
read_from_websocket_message_WriteErrorContinues(message) ==
  /\ tasks["read_from_websocket"] = "blocked"
  /\ ws = "open"
  /\ Len(recvLog) < MaxMsgs
  /\ recvLog' = Append(recvLog, message)
  /\ \/ /\ stdin' = Append(stdin, StdinChunk(message))
        /\ tasks' = [tasks EXCEPT !["read_from_websocket"] = PumpLoop]
     \/ /\ process = "exited"
        /\ stdin' = stdin
        /\ tasks' = [tasks EXCEPT !["read_from_websocket"] = PumpLoop]
  /\ UNCHANGED <<running, reconnect_delay, initialized, ws, process, pc, stopPc,
                 stops, readLog, wsOut, hsTrace, ghostVars>>
  /\ UNCHANGED <<orphanVars, iterVars, token, serviceVars>>

\* lines 148-160: the remote sent a text frame and recv() returned it; write
\* it with a newline and drain. A write to the pipe of a child that has
\* exited may raise: line 165 catches it and breaks.
read_from_websocket_message(message) ==
  /\ tasks["read_from_websocket"] = "blocked"
  /\ ws = "open"
  /\ Len(recvLog) < MaxMsgs
  /\ recvLog' = Append(recvLog, message)
  /\ \/ /\ stdin' = Append(stdin, StdinChunk(message))
        /\ tasks' = [tasks EXCEPT !["read_from_websocket"] = PumpLoop]
     \/ /\ process = "exited"
        /\ stdin' = stdin
        /\ tasks' = [tasks EXCEPT !["read_from_websocket"] = "done"]
  /\ UNCHANGED <<running, reconnect_delay, initialized, ws, process, pc, stopPc,
                 stops, readLog, wsOut, hsTrace, ghostVars>>
  /\ UNCHANGED <<orphanVars, iterVars, token, serviceVars>>

\* lines 162-164: recv() raised ConnectionClosed: break
read_from_websocket_closed ==
  /\ tasks["read_from_websocket"] = "blocked"
  /\ ws = "closed"
  /\ tasks' = [tasks EXCEPT !["read_from_websocket"] = "done"]
  /\ UNCHANGED <<running, reconnect_delay, initialized, ws, process, pc, stopPc,
                 stops, pipeVars, connVars, hsTrace, ghostVars>>
  /\ UNCHANGED <<orphanVars, iterVars, token, serviceVars>>

\* mutant of read_process_stderr_line: the line is sent to the remote
read_process_stderr_line_Forwards ==
  /\ tasks["read_process_stderr"] = "blocked"
  /\ Alive
  /\ tasks' = [tasks EXCEPT !["read_process_stderr"] = PumpLoop]
  /\ UNCHANGED <<running, reconnect_delay, initialized, ws, process, pc, stopPc,
                 stops, pipeVars, recvLog, hsTrace, ghostVars>>
  /\ wsOut' = Append(wsOut, <<"x">>)
  /\ UNCHANGED <<orphanVars, iterVars, token, serviceVars>>

\* lines 179-185: the child printed a line on stderr; it is logged
read_process_stderr_line ==
  /\ tasks["read_process_stderr"] = "blocked"
  /\ Alive
  /\ tasks' = [tasks EXCEPT !["read_process_stderr"] = PumpLoop]
  /\ UNCHANGED <<running, reconnect_delay, initialized, ws, process, pc, stopPc,
                 stops, pipeVars, connVars, hsTrace, ghostVars>>
  /\ UNCHANGED <<orphanVars, iterVars, token, serviceVars>>

\* lines 179-181: end of stream on stderr: break
read_process_stderr_eof ==
  /\ tasks["read_process_stderr"] = "blocked"
  /\ process = "exited"
  /\ tasks' = [tasks EXCEPT !["read_process_stderr"] = "done"]
  /\ UNCHANGED <<running, reconnect_delay, initialized, ws, process, pc, stopPc,
                 stops, pipeVars, connVars, hsTrace, ghostVars>>
  /\ UNCHANGED <<orphanVars, iterVars, token, serviceVars>>

(* -------------------------------- stop() ------------------------------- *)
\* lines 246-259, up to the await of wait(): terminate() raises
\* ProcessLookupError for a process that has exited
stop_terminate ==
  IF Alive
  THEN /\ process' = "terminating"
       /\ stopPc' = "wait"
  ELSE /\ process' = process
       /\ stopPc' = "done"

\* lines 237-244: a stop request (the signal handler's task, or main's
\* finally): running = False, then close the connection if there is one
stop_begin ==
  /\ pc \notin {"main", "exit1", "start"}
  /\ stopPc \in {"idle", "done"}
  /\ stops < MaxStops
  /\ stops' = stops + 1
  /\ running' = FALSE
  /\ IF ws = "none"
     THEN /\ stop_terminate
          /\ ws' = ws
     ELSE /\ ws' = "closed"
          /\ stopPc' = "ws_close"
          /\ process' = process
  /\ UNCHANGED <<reconnect_delay, initialized, pc, tasks, pipeVars, connVars,
                 hsTrace, ghostVars>>
  /\ UNCHANGED <<orphanVars, iterVars, token, serviceVars>>

\* line 242 returned: go on with the process
stop_ws_closed ==
  /\ stopPc = "ws_close"
  /\ stop_terminate
  /\ UNCHANGED <<running, reconnect_delay, initialized, ws, pc, tasks, stops,
                 pipeVars, connVars, hsTrace, ghostVars>>
  /\ UNCHANGED <<orphanVars, iterVars, token, serviceVars>>

\* line 249: wait() returned within the 5 seconds
stop_waited ==
  /\ stopPc = "wait"
  /\ process = "exited"
  /\ stopPc' = "done"
  /\ UNCHANGED <<running, reconnect_delay, initialized, ws, process, pc, tasks,
                 stops, pipeVars, connVars, hsTrace, ghostVars>>
  /\ UNCHANGED <<orphanVars, iterVars, token, serviceVars>>

\* mutant of stop_kill: after the 5 seconds stop() gives up and returns,
\* the process is left as it is
stop_kill_GivesUp ==
  /\ stopPc = "wait"
  /\ Alive
  /\ stopPc' = "done"
  /\ UNCHANGED <<running, reconnect_delay, initialized, ws, process, pc, tasks,
                 stops, pipeVars, connVars, hsTrace, ghostVars>>
  /\ UNCHANGED <<orphanVars, iterVars, token, serviceVars>>

\* lines 252-255: the 5 seconds passed: kill() and wait()
stop_kill ==
  /\ stopPc = "wait"
  /\ Alive
  /\ process' = "exited"
  /\ stopPc' = "done"
  /\ UNCHANGED <<running, reconnect_delay, initialized, ws, pc, tasks,
                 stops, pipeVars, connVars, hsTrace, ghostVars>>
  /\ UNCHANGED <<orphanVars, iterVars, token, serviceVars>>

(* ------------------------ child process and remote --------------------- *)
\* the child exits (on its own, or on SIGTERM); its pipes reach end of stream
child_exit ==
  /\ Alive
  /\ process' = "exited"
  /\ UNCHANGED <<running, reconnect_delay, initialized, ws, pc, tasks,
                 stopPc, stops, pipeVars, connVars, hsTrace, ghostVars>>
  /\ UNCHANGED <<orphanVars, iterVars, token, serviceVars>>

\* the remote closes the connection, or the network drops it
remote_close ==
  /\ ws = "open"
  /\ ws' = "closed"
  /\ UNCHANGED <<running, reconnect_delay, initialized, process, pc, tasks,
                 stopPc, stops, pipeVars, connVars, hsTrace, ghostVars>>
  /\ UNCHANGED <<orphanVars, iterVars, token, serviceVars>>

(* ---------------------------- specification ---------------------------- *)
Run ==
  \/ run_begin
  \/ run_loop
  \/ start_mcp_process_ok
  \/ start_mcp_process_fail
  \/ connect_websocket_ok
  \/ \E err \in ConnectErrors : connect_websocket_fail(err)
  \/ run_retry
  \/ initialize_mcp_request
  \/ initialize_mcp_sleep
  \/ initialize_mcp_notification
  \/ run_create_tasks
  \/ run_gather
  \/ run_finally_ws
  \/ run_finally_terminate
  \/ run_finally_wait
  \/ run_finally_sleep

Pump ==
  \/ \E p \in Pumps : pump_begin(p)
  \/ \E line \in Lines : read_from_process_line(line)
  \/ read_from_process_eof
  \/ \E message \in Messages : read_from_websocket_message(message)
  \/ read_from_websocket_closed
  \/ read_process_stderr_line
  \/ read_process_stderr_eof

Stop ==
  \/ stop_ws_closed
  \/ stop_waited
  \/ stop_kill

Environment ==
  \/ stop_begin
  \/ child_exit
  \/ remote_close

Next == Run \/ Pump \/ Stop \/ Environment

Spec == Init /\ [][Next]_vars

\* the pump steps that need no new input from the child or the remote
PumpReady ==
  \/ \E p \in Pumps : pump_begin(p)
  \/ read_from_process_eof
  \/ read_from_websocket_closed
  \/ read_process_stderr_eof

\* the event loop runs every task that is ready; the child, the remote and
\* the operator are under no obligation to print, send, close, exit or stop
FairSpec == Spec /\ WF_vars(Run) /\ WF_vars(PumpReady) /\ WF_vars(Stop)

\* the program from the start of main(), for every token the environment may
\* hold, with a child and a remote that send nothing
InitMain ==
  /\ MCPPipe_init
  /\ pc = "main"
  /\ token \in Tokens
  /\ NotifierIdle
  /\ ReminderServerIdle
  /\ SmitheryIdle

NextMain == main \/ Run \/ PumpReady \/ Stop \/ Environment

SpecMain == InitMain /\ [][NextMain]_vars

(* ------------------ src/reminder_notifier.py: the notifier ------------- *)
\* ORDER BY reminder_datetime ASC; the ids stand in the order of their times
RECURSIVE Ascending(_)
Ascending(ids) ==
  IF ids = {}
  THEN <<>>
  ELSE LET first == CHOOSE r \in ids : \A q \in ids : r <= q
       IN <<first>> \o Ascending(ids \ {first})

\* lines 66-86: the rows with completed = 0, notified = 0 and a time not
\* later than one minute from now
get_due_reminders ==
  Ascending({r \in ReminderIds : /\ reminders[r].present
                                 /\ ~reminders[r].completed
                                 /\ ~reminders[r].notified
                                 /\ reminders[r].due})

\* lines 130-137: the loop goes on to the next reminder, or check_and_notify()
\* returns and the next cycle may start (lines 144-151)
NextReminder ==
  /\ due_reminders' = Tail(due_reminders)
  /\ notifierPc' = IF Tail(due_reminders) = <<>> THEN "idle" ELSE "send"

\* lines 116-128: a polling cycle starts; get_due_reminders() returns the
\* rows, or [] when the database raised (lines 89-91)
check_and_notify ==
  /\ notifierPc = "idle"
  /\ cycles < MaxCycles
  /\ cycles' = cycles + 1
  /\ \E raised \in BOOLEAN :
       /\ due_reminders' = IF raised THEN <<>> ELSE get_due_reminders
       /\ notifierPc' = IF due_reminders' = <<>> THEN "idle" ELSE "send"
  /\ UNCHANGED <<reminders, notifications>>
  /\ UNCHANGED <<mcpPipeVars, reply, clientVars, managerVars>>

\* mutant of send_notification_to_xiaozhi: check_and_notify() marks the
\* reminder whatever the send returned
send_notification_to_xiaozhi_MarksAnyway ==
  /\ notifierPc = "send"
  /\ \/ notifications' =
          [notifications EXCEPT ![Head(due_reminders)] = @ + 1]
     \/ UNCHANGED notifications
  /\ notifierPc' = "mark"
  /\ UNCHANGED <<reminders, due_reminders, cycles>>
  /\ UNCHANGED <<mcpPipeVars, reply, clientVars, managerVars>>

\* lines 21-54 and 133-137: the notification is sent and True is returned, or
\* nothing is sent (no token, connect or send raised) and False is returned
send_notification_to_xiaozhi ==
  /\ notifierPc = "send"
  /\ \/ /\ notifications' =
             [notifications EXCEPT ![Head(due_reminders)] = @ + 1]
        /\ notifierPc' = "mark"
        /\ UNCHANGED due_reminders
     \/ /\ NextReminder
        /\ UNCHANGED notifications
  /\ UNCHANGED <<reminders, cycles>>
  /\ UNCHANGED <<mcpPipeVars, reply, clientVars, managerVars>>

\* lines 94-113 and 135: UPDATE ... SET notified = 1 WHERE id = ? and
\* commit (no row is updated when the reminder was deleted meanwhile), or the
\* database raised and False is returned, which check_and_notify() ignores
mark_as_notified ==
  /\ notifierPc = "mark"
  /\ \/ reminders' =
          IF reminders[Head(due_reminders)].present
          THEN [reminders EXCEPT ![Head(due_reminders)].notified = TRUE]
          ELSE reminders
     \/ reminders' = reminders
  /\ NextReminder
  /\ UNCHANGED <<notifications, cycles>>
  /\ UNCHANGED <<mcpPipeVars, reply, clientVars, managerVars>>

\* time passes: the time of a reminder comes within the next minute
reminder_comes_due(r) ==
  /\ reminders[r].present
  /\ ~reminders[r].due
  /\ reminders' = [reminders EXCEPT ![r].due = TRUE]
  /\ UNCHANGED <<due_reminders, notifierPc, notifications, cycles>>
  /\ UNCHANGED <<mcpPipeVars, reply, clientVars, managerVars>>

(* ------------------ src/reminder_server.py: the tools ------------------ *)
\* what a tool returned: success True, or an error ("not found", or "failed"
\* when an exception was caught)
Reply(tool, reminder_id, user_id, error) ==
  [tool |-> tool, reminder_id |-> reminder_id, user_id |-> user_id,
   success |-> error = "none", error |-> error]

\* WHERE id = ? AND user_id = ?
Matches(reminder_id, user_id) ==
  /\ reminder_id \in ReminderIds
  /\ reminders[reminder_id].present
  /\ reminders[reminder_id].user_id = user_id

\* mutant of complete_reminder: WHERE id = ?
complete_reminder_AnyUser(reminder_id, user_id) ==
  /\ IF reminder_id \in ReminderIds /\ reminders[reminder_id].present
     THEN /\ reminders' = [reminders EXCEPT ![reminder_id].completed = TRUE]
          /\ reply' = Reply("complete_reminder", reminder_id, user_id, "none")
     ELSE /\ reminders' = reminders
          /\ reply' = Reply("complete_reminder", reminder_id, user_id, "not found")
  /\ UNCHANGED <<due_reminders, notifierPc, notifications, cycles>>
  /\ UNCHANGED <<mcpPipeVars, clientVars, managerVars>>

\* lines 302-341: UPDATE ... SET completed = 1 WHERE id = ? AND user_id = ?;
\* rowcount 0 returns the not-found error without a commit (313-318), else
\* commit (320). An exception (int() of the id, the database) is caught and
\* returned as an error (334-339): before the commit, or after it (322-323)
complete_reminder(reminder_id, user_id) ==
  /\ \/ IF Matches(reminder_id, user_id)
        THEN /\ reminders' = [reminders EXCEPT ![reminder_id].completed = TRUE]
             /\ reply' \in {Reply("complete_reminder", reminder_id, user_id, e) :
                               e \in {"none", "failed"}}
        ELSE /\ reminders' = reminders
             /\ reply' = Reply("complete_reminder", reminder_id, user_id, "not found")
     \/ /\ reminders' = reminders
        /\ reply' = Reply("complete_reminder", reminder_id, user_id, "failed")
  /\ UNCHANGED <<due_reminders, notifierPc, notifications, cycles>>
  /\ UNCHANGED <<mcpPipeVars, clientVars, managerVars>>

\* lines 344-378: SELECT ... WHERE id = ? AND user_id = ?; no row returns
\* the not-found error (353-358), else DELETE with the same WHERE clause and
\* commit (360-361). An exception is caught and returned as an error
\* (373-378), with nothing committed
delete_reminder(reminder_id, user_id) ==
  /\ \/ IF Matches(reminder_id, user_id)
        THEN /\ reminders' = [reminders EXCEPT ![reminder_id] = NoRow]
             /\ reply' = Reply("delete_reminder", reminder_id, user_id, "none")
        ELSE /\ reminders' = reminders
             /\ reply' = Reply("delete_reminder", reminder_id, user_id, "not found")
     \/ /\ reminders' = reminders
        /\ reply' = Reply("delete_reminder", reminder_id, user_id, "failed")
  /\ UNCHANGED <<due_reminders, notifierPc, notifications, cycles>>
  /\ UNCHANGED <<mcpPipeVars, clientVars, managerVars>>

\* the tools called by any user for any id, over every table of at most
\* MaxReminders rows that add_reminder can have built
InitServer ==
  /\ SessionReady
  /\ SmitheryIdle
  /\ reminders \in [ReminderIds -> {NewRow(u, FALSE) : u \in UserIds} \cup {NoRow}]
  /\ due_reminders = <<>>
  /\ notifierPc = "idle"
  /\ notifications = [r \in ReminderIds |-> 0]
  /\ cycles = 0
  /\ ReminderServerIdle

NextServer ==
  \/ \E reminder_id \in RequestIds, user_id \in UserIds :
       complete_reminder(reminder_id, user_id)
  \/ \E reminder_id \in RequestIds, user_id \in UserIds :
       delete_reminder(reminder_id, user_id)

SpecServer == InitServer /\ [][NextServer]_vars

InitNotifier ==
  /\ SessionReady
  /\ SmitheryIdle
  /\ reminders \in [ReminderIds -> {NewRow("default", FALSE),
                                    NewRow("default", TRUE)}]
  /\ ReminderServerIdle
  /\ due_reminders = <<>>
  /\ notifierPc = "idle"
  /\ notifications = [r \in ReminderIds |-> 0]
  /\ cycles = 0

NextNotifier ==
  \/ check_and_notify
  \/ send_notification_to_xiaozhi
  \/ mark_as_notified
  \/ \E r \in ReminderIds : reminder_comes_due(r)
  \/ \E r \in ReminderIds : complete_reminder(r, "default")
  \/ \E r \in ReminderIds : delete_reminder(r, "default")

\* continuous_monitoring(): check_and_notify() every 60 seconds
SpecNotifier == InitNotifier /\ [][NextNotifier]_vars

(* --------------- src/smithery_connector.py: SmitheryClient ------------- *)
\* what a call returned: the method, the server, the status of the HTTP
\* response ("unsent" when no request was posted, "raised" when the post
\* raised) and whether the value returned has success True
Returned(call, name, status) ==
  [call |-> call, name |-> name, status |-> status, ok |-> status = "200"]

\* the answers the hosted endpoint of a server may give to initialize
ConnectStatuses(name) == IF name \in hosted THEN {"200"} ELSE {"500", "raised"}

\* the answers to tools/list and tools/call
ToolStatuses == {"200", "500", "raised"}

\* lines 101-162 for one answer: the name is stored on a 200 (lines 140-147)
\* and on nothing else (lines 156-162)
PostInitialize(name, status) ==
  /\ requests' = requests + 1
  /\ servers' = IF status = "200" THEN servers \cup {name} ELSE servers
  /\ result' = Returned("connect_hosted_server", name, status)

\* mutant of connect_hosted_server: the name is stored whatever the answer
connect_hosted_server_AnyStatus(name) ==
  /\ calls < MaxCalls
  /\ calls' = calls + 1
  /\ IF ~api_key
     THEN /\ result' = Returned("connect_hosted_server", name, "unsent")
          /\ UNCHANGED <<servers, requests>>
     ELSE \E status \in ConnectStatuses(name) :
            /\ requests' = requests + 1
            /\ servers' = servers \cup {name}
            /\ result' = Returned("connect_hosted_server", name, status)
  /\ UNCHANGED <<api_key, hosted>>
  /\ UNCHANGED <<mcpPipeVars, notifierVars, reply, managerVars>>

\* lines 93-162: without an API key an error is returned at once (101-102);
\* else the initialize request is posted
connect_hosted_server(name) ==
  /\ calls < MaxCalls
  /\ calls' = calls + 1
  /\ IF ~api_key
     THEN /\ result' = Returned("connect_hosted_server", name, "unsent")
          /\ UNCHANGED <<servers, requests>>
     ELSE \E status \in ConnectStatuses(name) : PostInitialize(name, status)
  /\ UNCHANGED <<api_key, hosted>>
  /\ UNCHANGED <<mcpPipeVars, notifierVars, reply, managerVars>>

\* lines 164-167 and 208-211: a name that is not in self.servers gets an
\* error before anything is posted; lines 169-206 and 213-256: the request
\* is posted and its answer returned
ToolRequest(call, name) ==
  IF name \notin servers
  THEN /\ result' = Returned(call, name, "unsent")
       /\ UNCHANGED requests
  ELSE \E status \in ToolStatuses :
         /\ requests' = requests + 1
         /\ result' = Returned(call, name, status)

\* lines 164-206
list_tools(name) ==
  /\ calls < MaxCalls
  /\ calls' = calls + 1
  /\ ToolRequest("list_tools", name)
  /\ UNCHANGED <<api_key, hosted, servers>>
  /\ UNCHANGED <<mcpPipeVars, notifierVars, reply, managerVars>>

\* lines 208-256
call_tool(name) ==
  /\ calls < MaxCalls
  /\ calls' = calls + 1
  /\ ToolRequest("call_tool", name)
  /\ UNCHANGED <<api_key, hosted, servers>>
  /\ UNCHANGED <<mcpPipeVars, notifierVars, reply, managerVars>>

(* ------------ src/auto_connect_manager.py: AutoConnectManager ---------- *)
\* the contents servers_config.json may have: every server, enabled or not
ConfigFiles ==
  { {[name |-> n, enabled |-> flags[n]] : n \in ServerNames} :
      flags \in [ServerNames -> BOOLEAN] }

\* line 145: [s for s in self.servers_config if s.get("enabled", False)]
EnabledServers(config) == {s.name : s \in {c \in config : c.enabled}}

\* src/smithery_connector.py, line 93: the parameters of
\* connect_hosted_server after self
connect_hosted_server_params == <<"qualified_name", "server_config">>

\* lines 112-116: the arguments connect_server() passes to it
connect_server_args == <<"qualified_name", "config", "full_url">>

\* lines 135-159: load_config() fails and connect_all() returns (141-143), or
\* it loads the file; with no server enabled connect_all() returns (147-150),
\* else one connect_server() task is made for each enabled server
connect_all ==
  /\ managerPc = "idle"
  /\ \/ /\ managerPc' = "done"
        /\ UNCHANGED <<servers_config, pending>>
     \/ \E file \in ConfigFiles :
          /\ servers_config' = file
          /\ pending' = EnabledServers(file)
          /\ managerPc' = IF EnabledServers(file) = {} THEN "done" ELSE "gather"
  /\ UNCHANGED <<connected_servers, attempted>>
  /\ UNCHANGED <<mcpPipeVars, notifierVars, reply, clientVars>>

\* lines 88-133: one connect_server() task. A call with a number of
\* arguments other than the number of parameters raises TypeError, which
\* line 131 catches: False is returned and nothing is stored. Else the
\* result of connect_hosted_server() decides (lines 118-129).
connect_server(name) ==
  /\ managerPc = "gather"
  /\ name \in pending
  /\ pending' = pending \ {name}
  /\ attempted' = attempted \cup {name}
  /\ IF Len(connect_server_args) # Len(connect_hosted_server_params)
     THEN UNCHANGED <<connected_servers, servers, requests, result>>
     ELSE IF ~api_key
          THEN /\ result' = Returned("connect_hosted_server", name, "unsent")
               /\ UNCHANGED <<connected_servers, servers, requests>>
          ELSE \E status \in ConnectStatuses(name) :
                 /\ PostInitialize(name, status)
                 /\ connected_servers' =
                      IF status = "200"
                      THEN connected_servers \cup {name}
                      ELSE connected_servers
  /\ UNCHANGED <<api_key, hosted, calls, servers_config, managerPc>>
  /\ UNCHANGED <<mcpPipeVars, notifierVars, reply>>

\* lines 159-166: gather has returned; the status is printed
connect_all_end ==
  /\ managerPc = "gather"
  /\ pending = {}
  /\ managerPc' = "done"
  /\ UNCHANGED <<servers_config, connected_servers, attempted, pending>>
  /\ UNCHANGED <<mcpPipeVars, notifierVars, reply, clientVars>>

\* the client and the manager of one server process, for every setting of
\* the API key and every set of hosted servers that answer
InitSmithery ==
  /\ SessionReady
  /\ NotifierIdle
  /\ ReminderServerIdle
  /\ api_key \in BOOLEAN
  /\ hosted \in SUBSET ServerNames
  /\ SmitheryClient_init
  /\ AutoConnectManager_init

NextSmithery ==
  \/ \E name \in ServerNames : connect_hosted_server(name)
  \/ \E name \in ServerNames : list_tools(name)
  \/ \E name \in ServerNames : call_tool(name)
  \/ connect_all
  \/ \E name \in ServerNames : connect_server(name)
  \/ connect_all_end

SpecSmithery == InitSmithery /\ [][NextSmithery]_vars

(* ------------------------------- claims -------------------------------- *)
Relaying == pc = "gather"

HandshakeOrder == <<"initialize", "sleep", "notifications/initialized">>

\* the chunks on the child's stdin that are not the handshake's
Pumped ==
  SelectSeq(stdin, LAMBDA c : c \notin {InitRequest \o <<NL>>,
                                        InitializedNotification \o <<NL>>})

RECURSIVE Pow2(_)
Pow2(n) == IF n = 0 THEN 1 ELSE 2 * Pow2(n - 1)

\* C1: once the remote connection has closed during Relaying, and unless a
\* stop is requested, the session leaves Relaying, tears down and makes a new
\* connection attempt, whatever the child does.
C1_RecoversFromRemoteClose ==
  (Relaying /\ ws = "closed" /\ running) ~> (pc = "connecting" \/ ~running)

\* C2: as soon as one pump has ended, the await of the Relay phase is over:
\* the session loop can go on to Teardown without the other pumps having ended.
C2_RelayEndsWithFirstPump ==
  (Relaying /\ \E p \in Pumps : tasks[p] = "done") => ENABLED run_gather

\* C3: when the child's stdout is at end of stream and the process->remote pump
\* has ended while the remote->process pump waits on an open, silent
\* connection, the session loop leaves Relaying for Teardown.
C3_StdoutEofEndsRelay ==
  (/\ Relaying
   /\ process = "exited"
   /\ tasks["read_from_process"] = "done"
   /\ tasks["read_from_websocket"] = "blocked"
   /\ ws = "open") ~> (pc = "fin_ws")

\* C4: a connection attempt that follows N >= 1 consecutive failed attempts was
\* preceded by min(2^N, 60) seconds of sleep, and the delay is 1 right after a
\* successful connection.
C4_BackoffSchedule ==
  /\ (pc = "connecting" /\ fails >= 1 /\ fails < MaxFails)
        => slept = Min(Pow2(fails), max_reconnect_delay)
  /\ pc = "hs_init" => reconnect_delay = 1

\* C5: the backoff delay is always an integer between 1 and 60.
C5_DelayInRange == reconnect_delay \in 1..60

C5_Witness ==
  /\ reconnect_delay = 60
  /\ fails >= 3
  /\ pc = "connecting"

\* C6: during Relaying the chunks the remote->process pump has written to
\* the child's stdin are the received messages, each followed by one newline,
\* in receipt order; only the last received message may be missing, and only
\* when its write failed and ended the pump.
C6_RemoteToProcessVerbatim ==
  Relaying =>
    LET n == Len(Pumped) IN
      /\ n <= Len(recvLog)
      /\ Len(recvLog) <= n + 1
      /\ \A i \in 1..n : Pumped[i] = recvLog[i] \o <<NL>>
      /\ Len(recvLog) = n + 1 => tasks["read_from_websocket"] = "done"

C6_Witness ==
  /\ Relaying
  /\ Len(recvLog) = 2
  /\ Len(Pumped) = 2
  /\ recvLog[1] # recvLog[2]
  /\ tasks["read_from_websocket"] = "blocked"

\* C7: during Relaying the messages sent to the remote are the lines read from
\* the child's stdout (without their line terminator), all of them, unchanged
\* and in order.
C7_ProcessToRemoteVerbatim ==
  Relaying =>
    wsOut = [i \in 1..Len(readLog) |-> SubSeq(readLog[i], 1, Len(readLog[i]) - 1)]

\* C8: pump tasks exist only in an iteration whose handshake wrote both
\* messages and set the initialized flag.
C8_PumpsOnlyAfterHandshake ==
  (\E p \in Pumps : tasks[p] # "none")
     => (initialized /\ hsTrace = HandshakeOrder)

\* C9: the handshake's steps are taken in the order initialize, pause,
\* notifications/initialized, and the notification is on the child's stdin only
\* after the initialize request.
C9_HandshakeOrder ==
  /\ Len(hsTrace) <= Len(HandshakeOrder)
  /\ \A i \in 1..Len(hsTrace) : hsTrace[i] = HandshakeOrder[i]
  /\ \A i \in 1..Len(stdin) :
       stdin[i] = InitializedNotification \o <<NL>>
          => \E j \in 1..(i - 1) : stdin[j] = InitRequest \o <<NL>>

C9_Witness ==
  /\ hsTrace = HandshakeOrder
  /\ Len(stdin) >= 2
  /\ stdin[1] = InitRequest \o <<NL>>
  /\ stdin[2] = InitializedNotification \o <<NL>>

\* C10: the step that establishes a connection leaves the initialized flag
\* false, and a step that makes the flag true is one after which both handshake
\* messages have been written on that connection, in order.
C10_InitializedFlag ==
  [][ /\ (pc = "connecting" /\ pc' = "hs_init") => ~initialized'
      /\ (~initialized /\ initialized')
            => /\ hsTrace' = HandshakeOrder
               /\ stdin' = <<InitRequest \o <<NL>>, InitializedNotification \o <<NL>>>>
    ]_vars

C10_Witness ==
  /\ initialized
  /\ Relaying
  /\ hsTrace = HandshakeOrder
  /\ ws = "open"

IsHandshakeChunk(c) ==
  c \in {InitRequest \o <<NL>>, InitializedNotification \o <<NL>>}

\* C11: while the handshake runs no pump task exists, and on the child's
\* stdin every handshake chunk comes before every chunk a pump wrote.
C11_HandshakeBeforePump ==
  /\ pc \in {"hs_init", "hs_sleep", "hs_notif"}
        => \A p \in Pumps : tasks[p] = "none"
  /\ \A i, j \in 1..Len(stdin) :
        (IsHandshakeChunk(stdin[i]) /\ ~IsHandshakeChunk(stdin[j])) => i < j

C11_Witness ==
  /\ Relaying
  /\ hsTrace = HandshakeOrder
  /\ Len(stdin) = 3
  /\ Len(Pumped) = 1
  /\ stops = 1

C13_TeardownKills ==
  (pc = "fin_wait" /\ running) ~> (pc # "fin_wait" \/ ~running)

\* C14: when an iteration of the session loop is over (and when run() has
\* returned) no connection is open and no child is alive.
C14_IterationCleansUp ==
  pc \in {"top", "spawning", "returned"} => (ws # "open" /\ ~Alive)

C14_Witness ==
  /\ pc = "top"
  /\ running
  /\ iterResult = "connected"
  /\ ws = "closed"
  /\ process = "exited"

\* C16: a stop request leads to run() having returned, and run() then takes
\* no further step.
C16_StopLeadsToStopped ==
  /\ (stops >= 1) ~> (pc = "returned")
  /\ [][pc = "returned" => pc' = "returned"]_vars

\* C17: run() has returned only after a stop request set running false.
C17_ExitsOnlyOnStop == pc = "returned" => (~running /\ stops >= 1)

C17_Witness ==
  /\ pc = "returned"
  /\ fails >= 1
  /\ stops = 1

\* C15: no child is spawned while the child before it is alive and no
\* connection is made while the one before it is open, so that at most one
\* spawned child is alive and at most one connection is open.
C15_AtMostOneEach ==
  /\ ~orphanProcess
  /\ ~orphanConnection
  /\ pc = "spawning" => ~Alive
  /\ pc = "connecting" => ws # "open"

C15_Witness ==
  /\ pc = "connecting"
  /\ process = "alive"
  /\ ws = "closed"
  /\ stops = 1
  /\ iterResult = "none"

TeardownPcs == {"fin_ws", "fin_proc", "fin_wait", "fin_sleep", "top"}

\* C18: an iteration whose spawn failed makes no connection attempt and no
\* handshake and goes through the teardown, and it makes as many backoff
\* sleeps and doublings of the delay as an iteration whose connection attempt
\* failed.
C18_SpawnFailureLikeConnectFailure ==
  /\ iterResult = "spawn_error" => pc \in TeardownPcs
  /\ \A k \in {"connect_error", "connect_error_401"} :
        (retryLog["spawn_error"] # <<>> /\ retryLog[k] # <<>>)
           => retryLog["spawn_error"] = retryLog[k]

\* C19: an iteration whose connection attempt failed with a 401 goes through
\* the retry sleep and the teardown with as many sleeps and doublings as after
\* any other connection error, run() does not return because of it, and the
\* loop goes on to a new attempt unless a stop is requested.
C19_AuthFailureRetryable ==
  /\ [](iterResult = "connect_error_401" => pc \in {"retry_sleep"} \cup TeardownPcs)
  /\ []((retryLog["connect_error_401"] # <<>> /\ retryLog["connect_error"] # <<>>)
          => retryLog["connect_error_401"] = retryLog["connect_error"])
  /\ [][ (pc = "top" /\ iterResult = "connect_error_401" /\ running)
            => pc' \in {"top", "spawning"} ]_vars

C19_Witness ==
  /\ retryLog["connect_error_401"] # <<>>
  /\ retryLog["connect_error"] # <<>>
  /\ iterResult = "connect_error_401"
  /\ pc = "top"
  /\ running

\* the token is set and has 10 characters or more once trimmed
TokenPlausible == token.set /\ Len(Strip(token.text)) >= 10

\* C20: with a missing token or one shorter than 10 characters after trimming,
\* main() exits with status 1 and no process is spawned, no connection is
\* attempted and run() does not start; with a token of 10 characters or more
\* the check passes and run() is started.
C20_TokenCheck ==
  /\ [](~TokenPlausible
          => /\ pc \in {"main", "exit1"}
             /\ process = "none"
             /\ ws = "none"
             /\ ~running)
  /\ [](TokenPlausible => pc # "exit1")
  /\ [][ /\ (pc = "main" /\ ~TokenPlausible) => pc' = "exit1"
         /\ (pc = "main" /\ TokenPlausible) => pc' = "start"
         /\ pc = "exit1" => pc' = "exit1" ]_vars

C20_Witness ==
  /\ pc = "exit1"
  /\ token.set
  /\ Len(token.text) >= 10

Last(q) == q[Len(q)]

\* a step in which readline() returned a line / recv() returned a message
ReadsLine == Len(readLog') = Len(readLog) + 1
ReceivesMessage == Len(recvLog') = Len(recvLog) + 1

\* C21: a line or message is forwarded in the step that reads it, and the pump
\* goes on, whether the text is JSON or not: with the connection open a
\* non-blank line is sent stripped, and with the child there a message is
\* written followed by a newline.
C21_DecodeFailureIsHarmless ==
  [][ \A valid \in BOOLEAN :
        /\ (/\ ReadsLine
            /\ IsJson(Last(readLog')) = valid
            /\ Strip(Last(readLog')) # <<>>
            /\ ws = "open")
              => /\ wsOut' = Append(wsOut, Strip(Last(readLog')))
                 /\ tasks'["read_from_process"] = PumpLoop
        /\ (/\ ReceivesMessage
            /\ IsJson(Last(recvLog')) = valid
            /\ process # "exited")
              => /\ stdin' = Append(stdin, Last(recvLog') \o <<NL>>)
                 /\ tasks'["read_from_websocket"] = PumpLoop
    ]_vars

C21_Witness ==
  /\ Relaying
  /\ running
  /\ readLog = << <<SP, "x", NL>>, <<"{}", NL>> >>
  /\ wsOut = << <<"x">>, <<"{}">> >>
  /\ recvLog = << <<SP, "x">>, <<"{}">> >>
  /\ Len(Pumped) = 2
  /\ tasks["read_from_process"] = "blocked"
  /\ tasks["read_from_websocket"] = "blocked"

\* C22: what is sent to the remote comes from a line of the child's stdout
\* read in the same step, and what is written to the child's stdin comes from
\* the handshake or from a message received in the same step: the stderr pump
\* adds to neither. The stderr pump leaves its loop only at end of stream or
\* when running is false.
C22_StderrNotForwarded ==
  /\ [][ (wsOut' # wsOut /\ wsOut' # <<>>)
            => (ReadsLine /\ wsOut' = wsOut \o Forwarded(Last(readLog'))) ]_vars
  /\ [][ (stdin' # stdin /\ stdin' # <<>>)
            => \/ /\ ReceivesMessage
                  /\ stdin' = Append(stdin, Last(recvLog') \o <<NL>>)
               \/ /\ pc \in {"hs_init", "hs_notif"}
                  /\ Len(stdin') = Len(stdin) + 1
                  /\ IsHandshakeChunk(Last(stdin'))
                  /\ SubSeq(stdin', 1, Len(stdin)) = stdin ]_vars
  /\ [][ (/\ tasks["read_process_stderr"] = "blocked"
          /\ tasks'["read_process_stderr"] # "blocked")
            => /\ tasks'["read_process_stderr"] = "done"
               /\ (process = "exited" \/ ~running) ]_vars

C22_Witness ==
  /\ Relaying
  /\ running
  /\ process = "exited"
  /\ tasks["read_process_stderr"] = "done"
  /\ wsOut # <<>>
  /\ Len(Pumped) = 1

\* C23: running becomes true only in the first step of run(), which is taken
\* once, and becomes false only in the step of a stop request.
C23_RunningOnlyClearedByStop ==
  /\ [][ (~running /\ running') => (pc = "start" /\ pc' = "top") ]_vars
  /\ [][ pc # "start" => pc' # "start" ]_vars
  /\ [][ (running /\ ~running') => stops' = stops + 1 ]_vars

C23_Witness ==
  /\ ~running
  /\ stops = 1
  /\ pc = "top"
  /\ iterResult = "spawn_error"

\* C25: the delay changes only by the reset to 1 of a successful connection
\* and by a doubling (capped at 60) in an iteration that failed; in the
\* teardown of an iteration that connected it stays as it is.
C25_DelayChangesOnlyOnConnect ==
  [][ reconnect_delay' # reconnect_delay
        => \/ /\ pc = "connecting"
              /\ pc' = "hs_init"
              /\ reconnect_delay' = 1
           \/ /\ iterResult \in FailureKinds
              /\ reconnect_delay' = Min(2 * reconnect_delay, 60)
    ]_vars

\* C26: in an iteration a connection is attempted only right after the
\* spawn, the handshake starts only with the connection made, the pump tasks
\* are created only after the handshake call has returned, and the relay is
\* followed by the teardown, after which comes the next spawn.
C26_PhaseOrder ==
  [][ /\ (pc # "connecting" /\ pc' = "connecting")
            => (pc = "spawning" /\ iterResult = "none" /\ process' = "alive")
      /\ (pc # "hs_init" /\ pc' = "hs_init")
            => (pc = "connecting" /\ ws' = "open" /\ iterResult' = "connected")
      /\ (pc # "create_tasks" /\ pc' = "create_tasks")
            => (pc \in {"hs_init", "hs_notif"} /\ iterResult = "connected")
      /\ (\E p \in Pumps : tasks[p] = "none" /\ tasks'[p] # "none")
            => (pc = "create_tasks" /\ pc' = "gather")
      /\ (pc = "gather" /\ pc' # "gather") => pc' = "fin_ws"
      /\ (pc # "spawning" /\ pc' = "spawning") => pc = "top"
    ]_vars

C26_Witness ==
  /\ Relaying
  /\ running
  /\ iterResult = "connected"
  /\ hsTrace = HandshakeOrder
  /\ \A p \in Pumps : tasks[p] = "blocked"
  /\ Len(recvLog) = 1
  /\ Len(readLog) = 1

\* C27: once the remote->process pump has ended it receives nothing and
\* writes nothing; it ends in the step in which a write of a received message
\* fails, and a step it takes with the connection closed ends it.
C27_RemotePumpEnds ==
  /\ [][ tasks["read_from_websocket"] = "done"
            => (recvLog' = recvLog /\ stdin' = stdin) ]_vars
  /\ [][ (ReceivesMessage /\ stdin' = stdin)
            => tasks'["read_from_websocket"] = "done" ]_vars
  /\ [][ (/\ tasks["read_from_websocket"] = "blocked"
          /\ ws = "closed"
          /\ tasks'["read_from_websocket"] # "blocked")
            => tasks'["read_from_websocket"] = "done" ]_vars

C27_Witness ==
  /\ Relaying
  /\ running
  /\ ws = "open"
  /\ tasks["read_from_websocket"] = "done"
  /\ Len(recvLog) = 1
  /\ Pumped = <<>>

\* C28: when the child has exited during Relaying, and while running stays
\* true and the connection stays open and no message arrives, the session
\* goes on to spawn a new child.
C28_RecoversFromChildExit ==
  \A n \in 0..(MaxMsgs - 1) :
    (Relaying /\ process = "exited" /\ running /\ ws = "open" /\ Len(recvLog) = n)
       ~> (pc = "spawning" \/ ~running \/ ws # "open" \/ Len(recvLog) # n)

\* C24: every stored reminder has its notification sent at most once, over
\* all polling cycles.
C24_NotifiedAtMostOnce == \A r \in ReminderIds : notifications[r] <= 1

\* C29: when connect_all() has finished, connect_server() was called for the
\* enabled servers and no other, and connected_servers holds the enabled
\* servers whose hosted connection can succeed (the API key is set and the
\* hosted endpoint answers 200) and no other.
C29_ConnectAllConnectsEnabled ==
  managerPc = "done"
    => /\ attempted = EnabledServers(servers_config)
       /\ connected_servers =
            {n \in EnabledServers(servers_config) : api_key /\ n \in hosted}

\* C30: list_tools and call_tool on a name that is not in the connected set
\* return an error and post no request; the connected set changes only by
\* the name of a connect_hosted_server call that got a 200, and a connect
\* that returns an error leaves it as it was.
C30_ConnectedSetGuardsCalls ==
  [][ calls' = calls + 1
        => /\ (result'.call \in {"list_tools", "call_tool"}
                 /\ result'.name \notin servers)
                => (~result'.ok /\ requests' = requests)
           /\ servers' # servers
                => /\ result'.call = "connect_hosted_server"
                   /\ result'.status = "200"
                   /\ servers' = servers \cup {result'.name}
           /\ (result'.call = "connect_hosted_server" /\ ~result'.ok)
                => servers' = servers
    ]_vars

C30_Witness ==
  /\ servers = {"a/x"}
  /\ requests = 1
  /\ calls = 2
  /\ result = [call |-> "call_tool", name |-> "b/y", status |-> "unsent",
               ok |-> FALSE]

\* C31: whenever initialized is true the session holds the connection on
\* which the handshake was completed: the loop is creating or awaiting its
\* pumps, and not in teardown, backoff or a later connection attempt.
C31_InitializedMeansConnected ==
  initialized => (pc \in {"create_tasks", "gather"} /\ ws # "none")

\* C32: once a stop request has set running false, the loop starts no new
\* connection attempt and no new handshake.
C32_NoAttemptAfterStop ==
  [][ (stops >= 1 /\ ~running)
        => /\ ~(pc # "connecting" /\ pc' = "connecting")
           /\ ~(pc # "hs_init" /\ pc' = "hs_init")
    ]_vars

\* C33: pump tasks exist only while the loop awaits them at line 212: none
\* is left when the loop tears down, sleeps, spawns, connects or shakes
\* hands, and the three of an iteration are created together from none.
C33_NoStalePumps ==
  /\ pc # "gather" => \A p \in Pumps : tasks[p] = "none"
  /\ Cardinality({p \in Pumps : tasks[p] # "none"}) <= 3

\* a later iteration (the flag of an earlier session is still set) is
\* connecting, and no pump exists
C33_Witness ==
  /\ pc = "connecting"
  /\ initialized
  /\ running
  /\ fails = 0
  /\ \A p \in Pumps : tasks[p] = "none"

\* a step in which a call of stop() returns
StopReturns == stopPc' = "done" /\ (stopPc # "done" \/ stops' = stops + 1)

\* C34: a call of stop() that returns while run() is terminating the
\* process (lines 222-229), or after run() has returned (main's finally,
\* after the signal handler's call), leaves running false, the connection
\* closed and the process terminated; once run() has returned, a further
\* call changes none of the three.
C34_StopIdempotent ==
  [][ /\ (StopReturns /\ pc \in {"fin_proc", "fin_wait", "returned"})
        => (~running' /\ ws' # "open" /\ ~Alive')
      /\ pc = "returned"
        => (running' = running /\ ws' = ws /\ process' = process)
      /\ pc' = "returned"
        => (~running' /\ ws' # "open" /\ ~Alive')
    ]_vars

\* the second call (main's finally) has returned after run() did
C34_Witness ==
  /\ pc = "returned"
  /\ stops = 2
  /\ stopPc = "done"
  /\ process = "exited"
  /\ ws = "closed"

\* the rows a polling cycle may select
Selectable ==
  {r \in ReminderIds : /\ reminders[r].present
                       /\ ~reminders[r].completed
                       /\ ~reminders[r].notified
                       /\ reminders[r].due}

\* C35: the notifier sets the notified flag only of the reminder it is
\* processing, right after the send of its notification succeeded in this
\* cycle; a failed send goes on to the next reminder with the table as it
\* was; and a cycle selects no row that is completed or already notified:
\* it selects every row that is due and neither, or none when the query
\* raised.
C35_MarkOnlyAfterSend ==
  [][ /\ \A r \in ReminderIds :
           (~reminders[r].notified /\ reminders'[r].notified)
             => (notifierPc = "mark" /\ Head(due_reminders) = r)
      /\ notifierPc' = "mark"
           => \/ notifierPc = "mark"
              \/ /\ notifierPc = "send"
                 /\ due_reminders' = due_reminders
                 /\ notifications'[Head(due_reminders)] =
                      notifications[Head(due_reminders)] + 1
      /\ (notifierPc = "send" /\ due_reminders' = Tail(due_reminders))
           => reminders' = reminders
      /\ cycles' = cycles + 1
           => \/ due_reminders' = <<>>
              \/ /\ {due_reminders'[i] : i \in 1..Len(due_reminders')} = Selectable
                 /\ Len(due_reminders') = Cardinality(Selectable)
    ]_vars

\* the second cycle has sent the first notification of reminder 1, which the
\* first cycle left unmarked, and has not selected the completed reminder 2
C35_Witness ==
  /\ cycles = 2
  /\ notifierPc = "mark"
  /\ due_reminders = <<1>>
  /\ notifications[1] = 1
  /\ ~reminders[1].notified
  /\ reminders[2].due
  /\ reminders[2].completed

=============================================================================
